---- MODULE Spec2Model ----
(***************************************************************************)
(* Grounding mapping of INDRA Agents (indra/preassembler/grounding_mapper) *)
(* and the ChEBI client (indra/databases/chebi_client).                    *)
(*                                                                         *)
(* Python values are modelled as follows.                                  *)
(*   - a db_refs dict is a function from the name spaces NS to a value,    *)
(*     Absent standing for a key the dict does not hold;                   *)
(*   - None is the string None, the empty string is "", and a value is     *)
(*     truthy when it is neither of them (nor Absent, which .get turns     *)
(*     into None);                                                         *)
(*   - a table of dicts or objects (the grounding map, the agent map, the  *)
(*     Deft registry) holds NoKey for a key it lacks and NoneDict for a    *)
(*     key whose value is None;                                            *)
(*   - a raised exception is the field raised of an operation's result.    *)
(***************************************************************************)
EXTENDS Integers, Sequences, FiniteSets

VARIABLES
    uniprot_gene_name,      \* uniprot_client: local table UP id -> gene name
    uniprot_web_gene_name,  \* uniprot_client: what the web service knows
    hgnc_ids,               \* hgnc_client: HGNC symbol -> HGNC id
    hgnc_names,             \* hgnc_client: HGNC id -> HGNC symbol
    uniprot_ids,            \* hgnc_client: HGNC id -> UP id
    mesh_names,             \* mesh_client: MESH id -> name
    go_labels,              \* go_client: GO id -> label
    gm,                     \* GroundingMapper.gm
    agent_map,              \* GroundingMapper.agent_map
    use_deft,               \* GroundingMapper.use_deft
    deft_disambiguators,    \* module-level registry of Deft models
    call,                   \* the last call of a single operation and its outcome
    stmts,                  \* map_agents: the stmts argument
    mapped_stmts,           \* map_agents: mapped_stmts
    num_skipped,            \* map_agents: num_skipped
    arg_do_rename,          \* map_agents: the do_rename argument
    idx,                    \* map_agents: how many statements the loop has taken
    pc,                     \* map_agents: idle, loop, returned or raised
    chebi_id_to_name,       \* chebi_client: ChEBI id -> name
    chebi_to_primary,       \* chebi_client: secondary ChEBI id -> primary id
    isa_closure,            \* hierarchies['entity']: the pairs <<a, b>> with a isa b
    entry_cache,            \* lru_cache of get_chebi_entry_from_web, oldest first
    requests                \* how many requests each id has been sent in

tables == <<uniprot_gene_name, uniprot_web_gene_name, hgnc_ids, hgnc_names,
            uniprot_ids, mesh_names, go_labels>>
mapper == <<gm, agent_map, use_deft, deft_disambiguators>>
batch == <<stmts, mapped_stmts, num_skipped, arg_do_rename, idx, pc>>
chebi == <<chebi_id_to_name, chebi_to_primary, isa_closure, entry_cache, requests>>
vars == <<tables, mapper, call, batch, chebi>>

----------------------------------------------------------------------------
(* Values *)

None == "None"
Absent == "<absent>"
NS == {"TEXT", "UP", "HGNC", "FPLX", "CHEBI", "MESH", "GO"}

UPs == {"P15056", "P01116"}
Syms == {"BRAF", "KRAS"}
Ids == {"1097", "6407"}

Truthy(v) == v \notin {None, Absent, ""}

\* dict.get(key): None for a missing key
Get(d, k) == IF d[k] = Absent THEN None ELSE d[k]

\* table.get(key) of a lookup table held as a function
Lookup(t, k) == IF k \in DOMAIN t THEN t[k] ELSE None

EmptyRefs == [k \in NS |-> Absent]

\* a lookup table without entries
NoTable == [k \in {} |-> None]

\* In a table whose values are dicts or objects: no such key, and the value None
NoKey == [kind |-> "absent"]
NoneDict == [kind |-> "None"]

\* the dict literal {k1: v1, ...} given as a set of <<key, value>> pairs
Refs(pairs) ==
    [k \in NS |-> IF \E p \in pairs : p[1] = k
                  THEN (CHOOSE p \in pairs : p[1] = k)[2] ELSE Absent]

----------------------------------------------------------------------------
(* The clients grounding_mapper imports *)

get_gene_name(up_id, web_fallback) ==
    LET local == Lookup(uniprot_gene_name, up_id)
    IN  IF Truthy(local) THEN local
        ELSE IF web_fallback THEN Lookup(uniprot_web_gene_name, up_id)
        ELSE None

get_hgnc_id(hgnc_name) == Lookup(hgnc_ids, hgnc_name)

get_hgnc_name(hgnc_id) == Lookup(hgnc_names, hgnc_id)

get_uniprot_id(hgnc_id) == Lookup(uniprot_ids, hgnc_id)

get_mesh_name(mesh_id) == Lookup(mesh_names, mesh_id)

get_go_label(go_id) == Lookup(go_labels, go_id)

----------------------------------------------------------------------------
(* chebi_client.  A ChEBI id is a string, with or without the prefix CHEBI: *)

ChebiNums == {"15422", "16761", "30616"}

\* 'CHEBI:%s' % num
Prefixed(num) ==
    CASE num = "15422" -> "CHEBI:15422"
      [] num = "16761" -> "CHEBI:16761"
      [] num = "30616" -> "CHEBI:30616"
      [] OTHER -> num

ChebiIds == ChebiNums \cup {Prefixed(n) : n \in ChebiNums}

\* chid.startswith('CHEBI:')
startswith_CHEBI(chid) == \E n \in ChebiNums : chid = Prefixed(n)

\* chid[6:]
WithoutPrefix(chid) == CHOOSE n \in ChebiNums : chid = Prefixed(n)

strip_prefix(chid) ==
    IF Truthy(chid) /\ startswith_CHEBI(chid) THEN WithoutPrefix(chid) ELSE chid

\* eh.isa('CHEBI', a, 'CHEBI', b) of the entity hierarchy
isa(a, b) == <<a, b>> \in isa_closure

\* isa_cmp of get_specific_id
isa_cmp(a, b) ==
    IF isa(IF startswith_CHEBI(a) THEN a ELSE Prefixed(a),
           IF startswith_CHEBI(b) THEN b ELSE Prefixed(b)) THEN -1
    ELSE IF isa(IF startswith_CHEBI(b) THEN b ELSE Prefixed(b),
                IF startswith_CHEBI(a) THEN a ELSE Prefixed(a)) THEN 1
    ELSE 0

\* cmp_to_key(isa_cmp): K(a) < K(b), the one comparison list.sort makes
key_lt(a, b) == isa_cmp(a, b) < 0

\* sorted(chebi_ids, key=...) is CPython's list.sort.  For fewer than 64
\* elements it finds the run the list begins with (count_run), reverses it if
\* it is strictly descending, and inserts the other elements one by one by
\* binary search (binarysort).

\* count_run: whether the list begins with a strictly descending run
run_descending(a) == Len(a) >= 2 /\ key_lt(a[2], a[1])

\* count_run: the length of the run the list begins with
RECURSIVE count_run(_, _, _)
count_run(a, descending, n) ==
    IF n >= Len(a) THEN n
    ELSE IF key_lt(a[n + 1], a[n]) = descending THEN count_run(a, descending, n + 1)
    ELSE n

\* binarysort: where pivot goes into the sorted a, by bisection between l and
\* r (counted from 0)
RECURSIVE bisect(_, _, _, _)
bisect(a, pivot, l, r) ==
    IF l >= r THEN l
    ELSE IF key_lt(pivot, a[l + ((r - l) \div 2) + 1])
    THEN bisect(a, pivot, l, l + ((r - l) \div 2))
    ELSE bisect(a, pivot, l + ((r - l) \div 2) + 1, r)

insert_at(a, pos, pivot) ==
    SubSeq(a, 1, pos) \o <<pivot>> \o SubSeq(a, pos + 1, Len(a))

\* binarysort: a[1..start] is sorted, the elements after it are inserted
RECURSIVE binarysort(_, _)
binarysort(a, start) ==
    IF start >= Len(a) THEN a
    ELSE binarysort(
            insert_at(SubSeq(a, 1, start),
                      bisect(SubSeq(a, 1, start), a[start + 1], 0, start),
                      a[start + 1])
            \o SubSeq(a, start + 2, Len(a)),
            start + 1)

\* the run of the first n elements is reversed if it is descending, and the
\* elements after it are inserted
sort_from_run(a, descending, n) ==
    binarysort(IF descending
               THEN [k \in 1..Len(a) |-> IF k <= n THEN a[n + 1 - k] ELSE a[k]]
               ELSE a,
               n)

sorted(a) ==
    IF Len(a) < 2 THEN a
    ELSE sort_from_run(a, run_descending(a), count_run(a, run_descending(a), 2))

\* the empty list is returned as it is
get_specific_id(chebi_ids) ==
    IF chebi_ids = <<>> THEN chebi_ids ELSE sorted(chebi_ids)[1]

\* table[key] = value
Put(table, key, value) ==
    [k \in DOMAIN table \cup {key} |-> IF k = key THEN value ELSE table[k]]

\* secondaries.split(','), the field being given as the list of its ids: the
\* empty field splits into ['']
split_secondaries(secondaries) ==
    IF secondaries = <<>> THEN <<"">> ELSE secondaries

\* lines 311-312
RECURSIVE put_secondaries(_, _, _)
put_secondaries(table, secondary_ids, chebi_id) ==
    IF secondary_ids = <<>> THEN table
    ELSE put_secondaries(Put(table, Head(secondary_ids), chebi_id),
                         Tail(secondary_ids), chebi_id)

\* _read_chebi_names: lines 307-313 over the rows of chebi_entries.tsv, t
\* holding the tables so far
RECURSIVE read_chebi_names(_, _)
read_chebi_names(rows, t) ==
    IF rows = <<>> THEN t
    ELSE read_chebi_names(Tail(rows),
            [chebi_id_to_name |->
                Put(t.chebi_id_to_name, Head(rows).chebi_id, Head(rows).name),
             chebi_to_primary |->
                put_secondaries(t.chebi_to_primary,
                                split_secondaries(Head(rows).secondaries),
                                Head(rows).chebi_id)])

get_primary_id(chebi_id) ==
    IF Truthy(Lookup(chebi_to_primary, chebi_id))
    THEN Lookup(chebi_to_primary, chebi_id)
    ELSE IF chebi_id \in DOMAIN chebi_id_to_name THEN chebi_id
    ELSE None

\* get_chebi_entry_from_web: None, or the element c:return of the answer with
\* the text of its child c:chebiAsciiName (Absent without that child)
NoneEntry == [kind |-> "None"]
Element(name) == [kind |-> "Element", chebiAsciiName |-> name]

\* what the web service can do with one request: the connection fails, the
\* status is not 200, the body is empty or is no XML, the XML has no element
\* c:return, or it has one, with or without a name
Responses ==
    {"ConnectionError", "status_500", "empty_body", "malformed_body",
     "no_return", "entry", "entry_without_name"}

\* lines 150-157 on the answer to the request for chebi_id, name being the
\* name the service has for it
entry_from_response(response, name) ==
    CASE response = "ConnectionError" ->
            [raised |-> "ConnectionError", res |-> NoneEntry]
      [] response = "status_500" -> [raised |-> "none", res |-> NoneEntry]
      [] response \in {"empty_body", "malformed_body"} ->
            [raised |-> "XMLSyntaxError", res |-> NoneEntry]
      [] response = "no_return" -> [raised |-> "none", res |-> NoneEntry]
      [] response = "entry" -> [raised |-> "none", res |-> Element(name)]
      [] OTHER -> [raised |-> "none", res |-> Element(Absent)]

\* lru_cache(maxsize=5000)
maxsize == 5000

\* the place of chebi_id in the cache, 0 when it has none
cache_index(cache, chebi_id) ==
    IF \E k \in 1..Len(cache) : cache[k].key = chebi_id
    THEN CHOOSE k \in 1..Len(cache) : cache[k].key = chebi_id
    ELSE 0

\* a hit makes the entry the most recently used one
cache_hit(cache, k) ==
    SubSeq(cache, 1, k - 1) \o SubSeq(cache, k + 1, Len(cache)) \o <<cache[k]>>

\* a returned value is stored, the least recently used entry making room
cache_store(cache, chebi_id, entry) ==
    IF Len(cache) + 1 > maxsize
    THEN Append(Tail(cache), [key |-> chebi_id, value |-> entry])
    ELSE Append(cache, [key |-> chebi_id, value |-> entry])

\* a call that raises stores nothing
fetched(chebi_id, o) ==
    [res |-> o.res, raised |-> o.raised, requested |-> TRUE,
     cache |-> IF o.raised = "none"
               THEN cache_store(entry_cache, chebi_id, o.res)
               ELSE entry_cache]

web_outcome(chebi_id, response, name, k) ==
    IF k > 0
    THEN [res |-> entry_cache[k].value, raised |-> "none", requested |-> FALSE,
          cache |-> cache_hit(entry_cache, k)]
    ELSE fetched(chebi_id, entry_from_response(response, name))

get_chebi_entry_from_web(chebi_id, response, name) ==
    web_outcome(chebi_id, response, name, cache_index(entry_cache, chebi_id))

\* _get_chebi_value_from_entry(entry, 'chebiAsciiName')
get_chebi_value_from_entry(entry) ==
    IF entry.kind = "None" THEN None
    ELSE IF entry.chebiAsciiName # Absent THEN entry.chebiAsciiName
    ELSE None

name_from_entry(o) ==
    [res |-> IF o.raised = "none" THEN get_chebi_value_from_entry(o.res)
             ELSE None,
     raised |-> o.raised, requested |-> o.requested, cache |-> o.cache]

get_chebi_name_from_id_web(chebi_id, response, name) ==
    name_from_entry(get_chebi_entry_from_web(chebi_id, response, name))

get_chebi_name_from_id(chebi_id, offline, response, name) ==
    IF Lookup(chebi_id_to_name, strip_prefix(chebi_id)) = None /\ ~offline
    THEN get_chebi_name_from_id_web(strip_prefix(chebi_id), response, name)
    ELSE [res |-> Lookup(chebi_id_to_name, strip_prefix(chebi_id)),
          raised |-> "none", requested |-> FALSE, cache |-> entry_cache]

----------------------------------------------------------------------------
(* GroundingMapper.standardize_db_refs *)

Returned(d) == [db_refs |-> d, raised |-> "none"]
Raised(d, e) == [db_refs |-> d, raised |-> e]

\* Variants of the branches with a plausible slip each, used to show that the
\* properties below depend on the branch they are about.
std_up_only_raising(db_refs, up_id) ==
    LET gene_name == get_gene_name(up_id, FALSE)
        hgnc_id == get_hgnc_id(gene_name)
    IN  IF ~Truthy(gene_name) THEN Raised(db_refs, "ValueError")
        ELSE IF Truthy(hgnc_id)
        THEN Returned([db_refs EXCEPT !["HGNC"] = hgnc_id])
        ELSE Returned(db_refs)

std_hgnc_only_logging(db_refs, hgnc_sym) ==
    LET hgnc_id == get_hgnc_id(hgnc_sym)
        up_id == get_uniprot_id(hgnc_id)
    IN  IF Truthy(hgnc_id)
        THEN IF Truthy(up_id)
             THEN Returned([db_refs EXCEPT !["HGNC"] = hgnc_id, !["UP"] = up_id])
             ELSE Returned([db_refs EXCEPT !["HGNC"] = hgnc_id])
        ELSE Returned(db_refs)

std_hgnc_only_no_up(db_refs, hgnc_sym) ==
    LET hgnc_id == get_hgnc_id(hgnc_sym)
    IN  IF Truthy(hgnc_id)
        THEN Returned([db_refs EXCEPT !["HGNC"] = hgnc_id])
        ELSE Raised(db_refs, "ValueError")

std_hgnc_only_fresh(db_refs, hgnc_sym) ==
    LET hgnc_id == get_hgnc_id(hgnc_sym)
        up_id == get_uniprot_id(hgnc_id)
    IN  IF Truthy(hgnc_id)
        THEN IF Truthy(up_id)
             THEN Returned([EmptyRefs EXCEPT !["HGNC"] = hgnc_id, !["UP"] = up_id])
             ELSE Returned([EmptyRefs EXCEPT !["HGNC"] = hgnc_id])
        ELSE Raised(db_refs, "ValueError")

std_both_set_first(db_refs, up_id, hgnc_sym) ==
    LET gene_name == get_gene_name(up_id, TRUE)
        hgnc_id == get_hgnc_id(hgnc_sym)
        set == IF Truthy(hgnc_id) THEN [db_refs EXCEPT !["HGNC"] = hgnc_id]
               ELSE db_refs
    IN  IF ~Truthy(gene_name) \/ gene_name # hgnc_sym
        THEN Raised(set, "ValueError")
        ELSE Returned(set)

\* if up_id and not hgnc_sym
std_up_only(db_refs, up_id) ==
    LET gene_name == get_gene_name(up_id, FALSE)
        hgnc_id == get_hgnc_id(gene_name)
    IN  IF Truthy(gene_name) /\ Truthy(hgnc_id)
        THEN Returned([db_refs EXCEPT !["HGNC"] = hgnc_id])
        ELSE Returned(db_refs)

\* elif hgnc_sym and not up_id
std_hgnc_only(db_refs, hgnc_sym) ==
    LET hgnc_id == get_hgnc_id(hgnc_sym)
        up_id == get_uniprot_id(hgnc_id)
    IN  IF Truthy(hgnc_id)
        THEN IF Truthy(up_id)
             THEN Returned([db_refs EXCEPT !["HGNC"] = hgnc_id, !["UP"] = up_id])
             ELSE Returned([db_refs EXCEPT !["HGNC"] = hgnc_id])
        ELSE Raised(db_refs, "ValueError")

\* elif up_id and hgnc_sym
std_both(db_refs, up_id, hgnc_sym) ==
    LET gene_name == get_gene_name(up_id, TRUE)
        hgnc_id == get_hgnc_id(hgnc_sym)
    IN  IF ~Truthy(gene_name)
        THEN Raised(db_refs, "ValueError")
        ELSE IF gene_name # hgnc_sym
        THEN Raised(db_refs, "ValueError")
        ELSE IF ~Truthy(hgnc_id)
        THEN Returned(db_refs)      \* logger.error only
        ELSE Returned([db_refs EXCEPT !["HGNC"] = hgnc_id])

standardize_db_refs(db_refs) ==
    LET up_id == Get(db_refs, "UP")
        hgnc_sym == Get(db_refs, "HGNC")
    IN  IF Truthy(up_id) /\ ~Truthy(hgnc_sym) THEN std_up_only(db_refs, up_id)
        ELSE IF Truthy(hgnc_sym) /\ ~Truthy(up_id) THEN std_hgnc_only(db_refs, hgnc_sym)
        ELSE IF Truthy(up_id) /\ Truthy(hgnc_sym) THEN std_both(db_refs, up_id, hgnc_sym)
        ELSE Returned(db_refs)

----------------------------------------------------------------------------
(* Agents.  An Agent is a record; NoneAgent stands for Python's None where an
   Agent may be.  bound_conditions holds the Agents of the bound conditions. *)

NoneAgent == [kind |-> "None"]

MkAgent(name, db_refs, bound_conditions) ==
    [kind |-> "Agent", name |-> name, db_refs |-> db_refs,
     bound_conditions |-> bound_conditions]

\* agent.db_refs.get('TEXT'), None for no Agent
MentionText(agent) ==
    IF agent = NoneAgent THEN None ELSE Get(agent.db_refs, "TEXT")

\* Agent._from_json: the Agent an agent map entry's 'agent' value describes
Agent_from_json(json) ==
    MkAgent(json.name, json.db_refs,
            [i \in 1..Len(json.bound_conditions) |->
                MkAgent(json.bound_conditions[i].name,
                        json.bound_conditions[i].db_refs, <<>>)])

\* Agent.get_grounding: the first populated name space in priority order
GroundingOrder == <<"FPLX", "HGNC", "UP", "CHEBI", "MESH", "GO">>

get_grounding(db_refs) ==
    LET found == {i \in 1..Len(GroundingOrder) : Truthy(db_refs[GroundingOrder[i]])}
    IN  IF found = {} THEN <<None, None>>
        ELSE LET i == CHOOSE j \in found : \A k \in found : j <= k
             IN  <<GroundingOrder[i], db_refs[GroundingOrder[i]]>>

----------------------------------------------------------------------------
(* standardize_name *)

AgentOk(a) == [agent |-> a, raised |-> "none"]
AgentRaised(a, e) == [agent |-> a, raised |-> e]

Rename(agent, name) ==
    IF Truthy(name) THEN AgentOk([agent EXCEPT !.name = name]) ELSE AgentOk(agent)

standardize_name(agent) ==
    IF agent = NoneAgent THEN AgentOk(agent)
    ELSE LET g == get_grounding(agent.db_refs)
             db_ns == g[1]
             db_id == g[2]
         IN  IF ~Truthy(db_ns) \/ ~Truthy(db_id) THEN AgentOk(agent)
             ELSE IF db_ns = "FPLX"
             THEN AgentOk([agent EXCEPT !.name = agent.db_refs["FPLX"]])
             ELSE IF db_ns = "HGNC" THEN Rename(agent, get_hgnc_name(db_id))
             ELSE IF db_ns = "UP"
             THEN Rename(agent, get_gene_name(agent.db_refs["UP"], FALSE))
             \* chebi_client.chebi_id_to_name is a dict: calling it raises
             ELSE IF db_ns = "CHEBI" THEN AgentRaised(agent, "TypeError")
             ELSE IF db_ns = "MESH"
             THEN Rename(agent, get_mesh_name(agent.db_refs["MESH"]))
             ELSE IF db_ns = "GO"
             THEN Rename(agent, get_go_label(agent.db_refs["GO"]))
             ELSE AgentOk(agent)

----------------------------------------------------------------------------
(* GroundingMapper.update_agent_db_refs and GroundingMapper.map_agent *)

\* agent_text in self.gm.keys(): gm holds NoKey for a text that is no key
GmHas(agent_text) == agent_text \in DOMAIN gm /\ gm[agent_text] # NoKey

\* self.agent_map.get(agent_text)
AgentMapGet(agent_text) ==
    IF agent_text \in DOMAIN agent_map /\ agent_map[agent_text] # NoKey
    THEN agent_map[agent_text] ELSE NoneDict

\* lines 85-88, std being what standardize_db_refs made of the map's record
set_db_refs(agent, do_rename, std) ==
    IF std.raised # "none" THEN AgentRaised(agent, std.raised)
    ELSE IF do_rename
    THEN standardize_name([agent EXCEPT !.db_refs = std.db_refs])
    ELSE AgentOk([agent EXCEPT !.db_refs = std.db_refs])

\* gm.get(agent_text) is copied, so the grounding map's record is not touched
update_agent_db_refs(agent, agent_text, do_rename) ==
    set_db_refs(agent, do_rename, standardize_db_refs(gm[agent_text]))

\* A variant of line 81 without the copy: standardize_db_refs writes into the
\* record of the grounding map
gm_record_shared(agent_text, std) == std.db_refs

\* line 81: the record standardize_db_refs writes into is a deepcopy, std
\* being its outcome; the record of the grounding map stays as it is
gm_record(agent_text, std) == gm[agent_text]

\* self.gm after map_agent for an Agent with the text agent_text: lines 244-248
\* and 251-263 read the maps, update_agent_db_refs (line 266) runs for a text
\* that has no agent map entry and a record in the grounding map
gm_mapped(agent_text) ==
    IF AgentMapGet(agent_text) # NoneDict THEN gm
    ELSE IF ~GmHas(agent_text) THEN gm
    ELSE IF gm[agent_text] = NoneDict THEN gm
    ELSE [gm EXCEPT ![agent_text] =
                gm_record(agent_text, standardize_db_refs(gm[agent_text]))]

\* The outcome of map_agent: the Agent returned (ref tells whether it is the
\* Agent passed in, a new one, or None), maps_to_none, the Agent passed in as
\* the call leaves it, and the exception raised if any.
MapResult(new_agent, ref, maps_to_none, agent, raised) ==
    [agent |-> new_agent, ref |-> ref, maps_to_none |-> maps_to_none,
     input |-> agent, raised |-> raised]

\* lines 266-267, upd being the outcome of update_agent_db_refs
Updated(upd) ==
    IF upd.raised # "none"
    THEN MapResult(NoneAgent, "none", FALSE, upd.agent, upd.raised)
    ELSE MapResult(upd.agent, "input", FALSE, upd.agent, "none")

\* Variants of the lookup with a plausible slip each
map_agent_lookup_none_as_missing(agent, agent_text, do_rename) ==
    IF ~GmHas(agent_text) \/ gm[agent_text] = NoneDict
    THEN MapResult(agent, "input", FALSE, agent, "none")
    ELSE Updated(update_agent_db_refs(agent, agent_text, do_rename))

map_agent_lookup_renaming(agent, agent_text, do_rename) ==
    IF ~GmHas(agent_text)
    THEN Updated(standardize_name([agent EXCEPT !.name = agent_text]))
    ELSE IF gm[agent_text] = NoneDict
    THEN MapResult(NoneAgent, "none", TRUE, agent, "none")
    ELSE Updated(update_agent_db_refs(agent, agent_text, do_rename))

\* lines 251-267
map_agent_lookup(agent, agent_text, do_rename) ==
    IF ~GmHas(agent_text) THEN MapResult(agent, "input", FALSE, agent, "none")
    ELSE IF gm[agent_text] = NoneDict
    THEN MapResult(NoneAgent, "none", TRUE, agent, "none")
    ELSE Updated(update_agent_db_refs(agent, agent_text, do_rename))

\* map_agent looking the text up in the grounding map before the agent map
map_agent_gm_first(agent, do_rename) ==
    LET agent_text == Get(agent.db_refs, "TEXT")
        mapped_to_agent_json == AgentMapGet(agent_text)
    IN  IF GmHas(agent_text) \/ mapped_to_agent_json = NoneDict
        THEN map_agent_lookup(agent, agent_text, do_rename)
        ELSE MapResult(Agent_from_json(mapped_to_agent_json.agent), "new", FALSE,
                       agent, "none")

map_agent(agent, do_rename) ==
    LET agent_text == Get(agent.db_refs, "TEXT")
        mapped_to_agent_json == AgentMapGet(agent_text)
    IN  IF mapped_to_agent_json # NoneDict
        THEN MapResult(Agent_from_json(mapped_to_agent_json.agent), "new", FALSE,
                       agent, "none")
        ELSE map_agent_lookup(agent, agent_text, do_rename)

----------------------------------------------------------------------------
(* Statements.  A Statement holds its agent list (NoneAgent for a missing
   Agent) and its evidence; an Evidence holds its sentence, the text the
   literature services have for it (None if they have none) and its
   annotations.  annotations.agents is NoKey or the dict under 'agents', whose
   deft field is NoKey or the value under 'deft'. *)

NoneStmt == [kind |-> "None"]

MkStmt(agents, evidence) ==
    [kind |-> "Statement", agents |-> agents, evidence |-> evidence]

MkEvidence(text, content, annotations) ==
    [text |-> text, content |-> content, annotations |-> annotations]

NoAnnotations == [agents |-> NoKey]

\* [None for _ in agent_list]
NoneList(n) == [i \in 1..n |-> None]

\* the value stored under 'deft': a list of scores, or the dict {'deft': list}
\* of line 741, whose integer keys are the indices given scores
DeftList(items) == [kind |-> "list", items |-> items]
DeftDict(items, keys) == [kind |-> "dict", deft |-> items, keys |-> keys]

----------------------------------------------------------------------------
(* run_deft_disambiguation and _get_text_for_grounding *)

\* lines 737-743: the annotations after the 'deft' entry is initialized
init_deft_annotations(annots, n) ==
    IF annots.agents # NoKey
    THEN IF annots.agents.deft = NoKey
         THEN [annots EXCEPT !.agents.deft = DeftDict(NoneList(n), {})]
         ELSE annots
    ELSE [annots EXCEPT !.agents = [deft |-> DeftList(NoneList(n))]]

\* line 764: annots['agents']['deft'][idx] = disamb_scores (idx counts from 0)
set_deft_scores(annots, i) ==
    LET deft == annots.agents.deft
    IN  IF deft.kind = "list"
        THEN [annots EXCEPT !.agents.deft.items[i + 1] = "scores"]
        ELSE [annots EXCEPT !.agents.deft.keys = @ \cup {i}]

\* _get_text_for_grounding: the text of the literature services if they have
\* one, the evidence sentence otherwise; without evidence evidence[0] raises
get_text_for_grounding(stmt) ==
    IF stmt.evidence = <<>> THEN [text |-> None, raised |-> "IndexError"]
    ELSE IF Truthy(stmt.evidence[1].content)
    THEN [text |-> stmt.evidence[1].content, raised |-> "none"]
    ELSE [text |-> stmt.evidence[1].text, raised |-> "none"]

DeftResult(annots, new_agent, raised) ==
    [annots |-> annots, new_agent |-> new_agent, raised |-> raised]

\* lines 761-764, std being standardize_db_refs({'HGNC': hgnc_sym})
set_hgnc_refs(annots, i, grounded, std) ==
    IF std.raised # "none" THEN DeftResult(annots, grounded, std.raised)
    ELSE DeftResult(set_deft_scores(annots, i),
                    [grounded EXCEPT !.db_refs = std.db_refs], "none")

\* lines 755-764, grounded being new_agent with the db_refs and name of the
\* disambiguation
set_grounding(annots, i, grounded, db_ns, db_id) ==
    IF db_ns = "HGNC"
    THEN set_hgnc_refs(annots, i, grounded,
            standardize_db_refs([EmptyRefs EXCEPT !["HGNC"] = get_hgnc_name(db_id)]))
    ELSE DeftResult(set_deft_scores(annots, i), grounded, "none")

\* lines 754-764, once the model has returned a grounding
apply_disambiguation(annots, i, new_agent, agent_txt, res) ==
    IF Len(res.ns_and_id) # 2 THEN DeftResult(annots, new_agent, "ValueError")
    ELSE IF new_agent = NoneAgent THEN DeftResult(annots, new_agent, "AttributeError")
    ELSE set_grounding(annots, i,
            [new_agent EXCEPT
                !.db_refs = [EmptyRefs EXCEPT !["TEXT"] = agent_txt,
                                              ![res.ns_and_id[1]] = res.ns_and_id[2]],
                !.name = res.name],
            res.ns_and_id[1], res.ns_and_id[2])

\* the annotations of stmt.evidence[0], or the dict of line 737 when the
\* Statement has no evidence
Annotations(stmt) ==
    IF stmt.evidence # <<>> THEN stmt.evidence[1].annotations ELSE NoAnnotations

\* lines 744-753, annots being the annotations after lines 737-743
disambiguate(stmt, annots, i, new_agent, agent_txt, grounding_text) ==
    IF grounding_text.raised # "none"
    THEN DeftResult(annots, new_agent, grounding_text.raised)
    ELSE IF ~Truthy(grounding_text.text) THEN DeftResult(annots, new_agent, "none")
    ELSE IF deft_disambiguators[agent_txt].raises
    THEN DeftResult(annots, new_agent, "Exception")
    ELSE IF deft_disambiguators[agent_txt].ns_and_id = <<"ungrounded">>
    THEN DeftResult(annots, new_agent, "none")
    ELSE apply_disambiguation(annots, i, new_agent, agent_txt,
                              deft_disambiguators[agent_txt])

\* i is the position idx, counted from 0
run_deft_disambiguation(stmt, i, new_agent, agent_txt) ==
    disambiguate(stmt, init_deft_annotations(Annotations(stmt), Len(stmt.agents)),
                 i, new_agent, agent_txt, get_text_for_grounding(stmt))

----------------------------------------------------------------------------
(* GroundingMapper.map_agents_for_stmt *)

StmtResult(stmt, raised) == [stmt |-> stmt, raised |-> raised]

WithAnnotations(stmt, annots) ==
    IF stmt.evidence = <<>> THEN stmt
    ELSE [stmt EXCEPT !.evidence[1].annotations = annots]

\* agent_txt in deft_disambiguators
HasDeftModel(agent_txt) ==
    agent_txt \in DOMAIN deft_disambiguators /\ deft_disambiguators[agent_txt] # NoKey

\* A variant of lines 196-199 that leaves the new Agent as map_agent gave it
keep_bound_conditions_dropping(new_agent, agent) == new_agent

\* lines 196-199: the bound conditions of the old Agent are copied over
keep_bound_conditions(new_agent, agent) ==
    IF new_agent # NoneAgent /\ Len(new_agent.bound_conditions) = 0
    THEN [new_agent EXCEPT !.bound_conditions = agent.bound_conditions]
    ELSE new_agent

RECURSIVE map_bound_conditions(_, _, _, _)

\* A variant that leaves a bound condition without an Agent, where the code
\* discards the Statement
bound_condition_mapped_keeping(stmt, i, j, rename, r) ==
    IF r.raised # "none" THEN StmtResult(NoneStmt, r.raised)
    ELSE map_bound_conditions(
            [stmt EXCEPT !.agents[i].bound_conditions[j] = r.agent], i, j + 1, rename)

\* lines 209-214, r being the outcome of map_agent for bound condition j of
\* the Agent at position i
bound_condition_mapped(stmt, i, j, rename, r) ==
    IF r.raised # "none" THEN StmtResult(NoneStmt, r.raised)
    ELSE IF r.maps_to_none THEN StmtResult(NoneStmt, "none")
    ELSE map_bound_conditions(
            [stmt EXCEPT !.agents[i].bound_conditions[j] = r.agent], i, j + 1, rename)

\* lines 206-216: the bound conditions of the Agents from position i on, from
\* bound condition j of Agent i; the result is the mapped Statement, NoneStmt,
\* or the exception map_agent raised
map_bound_conditions(stmt, i, j, rename) ==
    IF i > Len(stmt.agents) THEN StmtResult(stmt, "none")
    ELSE IF stmt.agents[i] = NoneAgent \/ j > Len(stmt.agents[i].bound_conditions)
    THEN map_bound_conditions(stmt, i + 1, 1, rename)
    ELSE bound_condition_mapped(stmt, i, j, rename,
            map_agent(stmt.agents[i].bound_conditions[j], rename))

RECURSIVE map_top_level(_, _, _)

\* lines 191-201, deft being the outcome of the Deft step (of no step: the
\* annotations and new_agent as they were)
agent_replaced(stmt, i, rename, maps_to_none, deft) ==
    IF maps_to_none THEN StmtResult(NoneStmt, "none")
    ELSE map_top_level(
            [WithAnnotations(stmt, deft.annots) EXCEPT
                !.agents[i] = keep_bound_conditions(deft.new_agent, stmt.agents[i])],
            i + 1, rename)

\* A variant that takes an exception of map_agent for a reason to drop the
\* Statement
agent_mapped_dropping(stmt, i, rename, agent_txt, r) ==
    IF r.raised # "none" THEN StmtResult(NoneStmt, "none")
    ELSE IF use_deft /\ HasDeftModel(agent_txt)
    THEN agent_replaced(stmt, i, rename, r.maps_to_none,
            run_deft_disambiguation(stmt, i - 1, r.agent, agent_txt))
    ELSE agent_replaced(stmt, i, rename, r.maps_to_none,
            DeftResult(Annotations(stmt), r.agent, "none"))

\* lines 179-189, r being the outcome of map_agent for the Agent at position
\* i; an exception of run_deft_disambiguation is caught and logged
agent_mapped(stmt, i, rename, agent_txt, r) ==
    IF r.raised # "none" THEN StmtResult(NoneStmt, r.raised)
    ELSE IF use_deft /\ HasDeftModel(agent_txt)
    THEN agent_replaced(stmt, i, rename, r.maps_to_none,
            run_deft_disambiguation(stmt, i - 1, r.agent, agent_txt))
    ELSE agent_replaced(stmt, i, rename, r.maps_to_none,
            DeftResult(Annotations(stmt), r.agent, "none"))

\* lines 172-203 from the Agent at position i (counted from 1) on, then the
\* bound conditions
map_top_level(stmt, i, rename) ==
    IF i > Len(stmt.agents) THEN map_bound_conditions(stmt, 1, 1, rename)
    ELSE IF stmt.agents[i] = NoneAgent \/ MentionText(stmt.agents[i]) = None
    THEN map_top_level(stmt, i + 1, rename)
    ELSE agent_mapped(stmt, i, rename, MentionText(stmt.agents[i]),
                      map_agent(stmt.agents[i], rename))

\* A variant of line 167 without the copy: mapped_stmt is the Statement passed in
caller_stmt_aliased(stmt, mapped_stmt) ==
    IF mapped_stmt = NoneStmt THEN stmt ELSE mapped_stmt

\* line 167: mapped_stmt = deepcopy(stmt).  The loops assign to mapped_stmt and
\* to what it holds; the Statement the caller passed in is another object and
\* is, after the call, what it was
caller_stmt(stmt, mapped_stmt) == stmt

\* the outcome of map_agents_for_stmt: the Statement returned (NoneStmt for
\* None), the exception raised if any, and the Statement passed in as the
\* call leaves it
stmt_outcome(stmt, res) ==
    [stmt |-> res.stmt, raised |-> res.raised, input |-> caller_stmt(stmt, res.stmt)]

map_agents_for_stmt(stmt, rename) == stmt_outcome(stmt, map_top_level(stmt, 1, rename))

----------------------------------------------------------------------------
(* States of the clients' tables and of the mapper *)

Texts == {"ERK", "XYZ"}

\* The UniProt and HGNC tables: any assignment over the small id sets
UniprotTables == [UPs -> Syms \cup {None}]
HgncIdTables == [Syms -> Ids \cup {None}]
UniprotIdTables == [Ids -> UPs \cup {None}]

NoMapper ==
    /\ gm = [t \in Texts |-> NoKey]
    /\ agent_map = [t \in Texts |-> NoKey]
    /\ use_deft = FALSE
    /\ deft_disambiguators = [t \in Texts |-> NoKey]

NoBatch ==
    /\ stmts = <<>>
    /\ mapped_stmts = <<>>
    /\ num_skipped = 0
    /\ arg_do_rename = TRUE
    /\ idx = 0
    /\ pc = "idle"

\* the ChEBI client with empty tables, before any request
NoChebi ==
    /\ chebi_id_to_name = NoTable
    /\ chebi_to_primary = NoTable
    /\ isa_closure = {}
    /\ entry_cache = <<>>
    /\ requests = NoTable

NoCall == [op |-> "none"]

----------------------------------------------------------------------------
(* SpecStd: standardize_db_refs applied to any record, under any tables *)

StdInputs ==
    {[EmptyRefs EXCEPT !["TEXT"] = t, !["UP"] = u, !["HGNC"] = h, !["FPLX"] = f] :
        t \in {Absent, "ERK"}, u \in {Absent, ""} \cup UPs,
        h \in {Absent, ""} \cup Syms, f \in {Absent, "ERK"}}

InitStd ==
    /\ uniprot_gene_name \in UniprotTables
    /\ uniprot_web_gene_name \in UniprotTables
    /\ hgnc_ids \in HgncIdTables
    /\ hgnc_names = [i \in Ids |-> None]
    /\ uniprot_ids \in UniprotIdTables
    /\ mesh_names = NoTable
    /\ go_labels = NoTable
    /\ NoMapper
    /\ NoBatch
    /\ NoChebi
    /\ call = NoCall

CallStandardize ==
    /\ call.op = "none"
    /\ \E d \in StdInputs :
        call' = [op |-> "standardize_db_refs", arg |-> d,
                 res |-> standardize_db_refs(d)]
    /\ UNCHANGED <<tables, chebi, mapper, batch>>

NextStd == CallStandardize

SpecStd == InitStd /\ [][NextStd]_vars

----------------------------------------------------------------------------
(* States of a GroundingMapper: its grounding map, agent map and Deft models *)

\* what a curated grounding map holds for a text
GmRecords(t) ==
    {Refs({<<"TEXT", t>>, <<"FPLX", "ERK">>}),
     Refs({<<"TEXT", t>>, <<"HGNC", "BRAF">>}),
     Refs({<<"TEXT", t>>, <<"UP", "P15056">>}),
     Refs({<<"TEXT", t>>, <<"UP", "P15056">>, <<"HGNC", "KRAS">>}),
     Refs({<<"TEXT", t>>, <<"CHEBI", "CHEBI:15422">>})}

GmValues(t) == {NoKey, NoneDict} \cup GmRecords(t)

\* agent map entries: the JSON of an Agent, without and with a bound condition
AgentJson ==
    [name |-> "ERK", db_refs |-> Refs({<<"FPLX", "ERK">>}), bound_conditions |-> <<>>]

AgentJsonBound ==
    [name |-> "BRAF", db_refs |-> Refs({<<"HGNC", "BRAF">>}),
     bound_conditions |->
        <<[name |-> "XYZ", db_refs |-> Refs({<<"TEXT", "XYZ">>})]>>]

AgentMapValues == {NoKey, [agent |-> AgentJson], [agent |-> AgentJsonBound]}

\* a Deft model, given by what its disambiguate returns or raises
DeftModels ==
    {[raises |-> FALSE, ns_and_id |-> <<"ungrounded">>, name |-> None],
     [raises |-> FALSE, ns_and_id |-> <<"HGNC", "1097">>, name |-> "BRAF"],
     [raises |-> FALSE, ns_and_id |-> <<"FPLX", "ERK">>, name |-> "ERK"],
     [raises |-> FALSE, ns_and_id |-> <<"CHEBI", "CHEBI", "15422">>, name |-> "ATP"],
     [raises |-> TRUE, ns_and_id |-> <<"ungrounded">>, name |-> None]}

\* the clients' tables: BRAF is known throughout unless HGNC lacks its symbol
InitWorld ==
    /\ uniprot_gene_name = [u \in UPs |-> IF u = "P15056" THEN "BRAF" ELSE None]
    /\ uniprot_web_gene_name = [u \in UPs |-> IF u = "P15056" THEN "BRAF" ELSE "KRAS"]
    /\ hgnc_ids \in {[y \in Syms |-> IF y = "BRAF" THEN "1097" ELSE None],
                     [y \in Syms |-> None]}
    /\ hgnc_names = [i \in Ids |-> IF i = "1097" THEN "BRAF" ELSE None]
    /\ uniprot_ids = [i \in Ids |-> IF i = "1097" THEN "P15056" ELSE None]
    /\ mesh_names = NoTable
    /\ go_labels = NoTable

----------------------------------------------------------------------------
(* SpecAgent: map_agent applied to any Agent, under any mapper *)

AgentInputs ==
    {MkAgent("erk", [d EXCEPT !["TEXT"] = t], b) :
        t \in Texts \cup {Absent},
        d \in {EmptyRefs, Refs({<<"UP", "P01116">>})},
        b \in {<<>>, <<MkAgent("xyz", Refs({<<"TEXT", "XYZ">>}), <<>>)>>}}

InitAgent ==
    /\ InitWorld
    /\ gm \in {g \in [Texts -> UNION {GmValues(t) : t \in Texts}] :
                 \A t \in Texts : g[t] \in GmValues(t)}
    /\ agent_map \in [Texts -> AgentMapValues]
    /\ use_deft \in BOOLEAN
    /\ deft_disambiguators \in
         [Texts -> {NoKey, [raises |-> FALSE, ns_and_id |-> <<"FPLX", "ERK">>,
                              name |-> "ERK"]}]
    /\ NoBatch
    /\ NoChebi
    /\ call = NoCall

CallMapAgent ==
    /\ call.op = "none"
    /\ \E agent \in AgentInputs, do_rename \in BOOLEAN :
        call' = [op |-> "map_agent", arg |-> agent, do_rename |-> do_rename,
                 res |-> map_agent(agent, do_rename)]
    /\ UNCHANGED <<tables, chebi, mapper, batch>>

NextAgent == CallMapAgent

SpecAgent == InitAgent /\ [][NextAgent]_vars

----------------------------------------------------------------------------
(* Spec: map_agents over a list of Statements, one loop iteration per step *)

MaxStmts == 2

Sentence == MkEvidence("ERK binds XYZ", None, NoAnnotations)

Mention(t) == MkAgent(t, Refs({<<"TEXT", t>>}), <<>>)

\* first Agents of a Statement: with a text, with a bound condition, and one
\* that carries no TEXT but has a bound condition
FirstAgents ==
    {Mention("ERK"), Mention("XYZ"),
     MkAgent("ERK", Refs({<<"TEXT", "ERK">>}), <<Mention("XYZ")>>),
     MkAgent("XYZ", Refs({<<"TEXT", "XYZ">>}), <<Mention("ERK")>>),
     MkAgent("BRAF", Refs({<<"UP", "P15056">>}), <<Mention("XYZ")>>)}

SecondAgents == {NoneAgent, Mention("XYZ")}

StmtInputs == {MkStmt(<<a, b>>, <<Sentence>>) : a \in FirstAgents, b \in SecondAgents}

StmtLists == UNION {[1..n -> StmtInputs] : n \in 0..MaxStmts}

\* BRAF is known to HGNC, so that of the grounding map's records only the one
\* pairing P15056 with KRAS raises
Init ==
    /\ InitWorld
    /\ hgnc_ids["BRAF"] = "1097"
    /\ gm \in {g \in [Texts -> UNION {GmValues(t) : t \in Texts}] :
                 /\ g["ERK"] \in {NoKey, Refs({<<"TEXT", "ERK">>, <<"FPLX", "ERK">>}),
                                  Refs({<<"TEXT", "ERK">>, <<"UP", "P15056">>,
                                        <<"HGNC", "KRAS">>})}
                 /\ g["XYZ"] \in {NoKey, NoneDict}}
    /\ agent_map \in {m \in [Texts -> AgentMapValues] :
                 \/ m = [t \in Texts |-> NoKey]
                 \/ m = [t \in Texts |-> IF t = "ERK" THEN [agent |-> AgentJsonBound]
                                         ELSE NoKey]
                 \/ m = [t \in Texts |-> IF t = "XYZ" THEN [agent |-> AgentJson]
                                         ELSE NoKey]}
    /\ use_deft \in BOOLEAN
    /\ deft_disambiguators =
         [t \in Texts |->
            IF t = "ERK"
            THEN [raises |-> FALSE, ns_and_id |-> <<"HGNC", "1097">>, name |-> "BRAF"]
            ELSE [raises |-> FALSE, ns_and_id |-> <<"FPLX", "ERK">>, name |-> "ERK"]]
    /\ NoBatch
    /\ NoChebi
    /\ call = NoCall

\* map_agents is called: lines 289-290
CallMapAgents ==
    /\ pc = "idle"
    /\ \E list \in StmtLists, rename \in BOOLEAN :
        /\ stmts' = list
        /\ arg_do_rename' = rename
    /\ mapped_stmts' = <<>>
    /\ num_skipped' = 0
    /\ idx' = 0
    /\ pc' = "loop"
    /\ UNCHANGED <<tables, chebi, mapper, call>>

\* one iteration of the loop of lines 292-298
MapNextStmt ==
    /\ pc = "loop"
    /\ idx < Len(stmts)
    /\ LET r == map_agents_for_stmt(stmts[idx + 1], arg_do_rename)
       IN  \/ /\ r.raised = "none"
              /\ r.stmt # NoneStmt
              /\ mapped_stmts' = Append(mapped_stmts, r.stmt)
              /\ idx' = idx + 1
              /\ stmts' = [stmts EXCEPT ![idx + 1] = r.input]
              /\ UNCHANGED <<num_skipped, pc, call>>
           \/ /\ r.raised = "none"
              /\ r.stmt = NoneStmt
              /\ num_skipped' = num_skipped + 1
              /\ idx' = idx + 1
              /\ stmts' = [stmts EXCEPT ![idx + 1] = r.input]
              /\ UNCHANGED <<mapped_stmts, pc, call>>
           \/ /\ r.raised # "none"
              /\ pc' = "raised"
              /\ call' = [op |-> "map_agents", raised |-> r.raised]
              /\ stmts' = [stmts EXCEPT ![idx + 1] = r.input]
              /\ UNCHANGED <<mapped_stmts, num_skipped, idx>>
    /\ UNCHANGED <<tables, chebi, mapper, arg_do_rename>>

\* lines 299-300
ReturnMappedStmts ==
    /\ pc = "loop"
    /\ idx = Len(stmts)
    /\ pc' = "returned"
    /\ UNCHANGED <<tables, chebi, mapper, call, stmts, mapped_stmts, num_skipped,
                   arg_do_rename, idx>>

Next == CallMapAgents \/ MapNextStmt \/ ReturnMappedStmts

Spec == Init /\ [][Next]_vars

----------------------------------------------------------------------------
(* SpecName: standardize_name applied to any Agent, under any tables *)


\* an Agent named erk with any choice of groundings
NameInputs ==
    {MkAgent("erk", [EmptyRefs EXCEPT !["FPLX"] = f, !["HGNC"] = h, !["UP"] = u,
                                       !["CHEBI"] = c, !["MESH"] = m, !["GO"] = g],
             <<>>) :
        f \in {Absent, "ERK"}, h \in {Absent, "1097"}, u \in {Absent, "P15056"},
        c \in {Absent, "CHEBI:15422"}, m \in {Absent, "D000001"},
        g \in {Absent, "GO:0006915"}}

InitName ==
    /\ uniprot_gene_name \in [UPs -> {"BRAF", None}]
    /\ uniprot_web_gene_name = [u \in UPs |-> "KRAS"]
    /\ hgnc_ids = [y \in Syms |-> None]
    /\ hgnc_names \in [Ids -> {"BRAF", None}]
    /\ uniprot_ids = [i \in Ids |-> None]
    /\ mesh_names \in [{"D000001"} -> {"Calcimycin", None}]
    /\ go_labels \in [{"GO:0006915"} -> {"apoptotic process", None}]
    /\ NoMapper
    /\ NoBatch
    /\ chebi_id_to_name \in [{"15422"} -> {"ATP", None}]
    /\ chebi_to_primary = NoTable
    /\ isa_closure = {}
    /\ entry_cache = <<>>
    /\ requests = NoTable
    /\ call = NoCall

CallStandardizeName ==
    /\ call.op = "none"
    /\ \E agent \in NameInputs :
        call' = [op |-> "standardize_name", arg |-> agent,
                 res |-> standardize_name(agent)]
    /\ UNCHANGED <<tables, chebi, mapper, batch>>

NextName == CallStandardizeName

SpecName == InitName /\ [][NextName]_vars

----------------------------------------------------------------------------
(* SpecSpecific: get_specific_id applied to any list, under any hierarchy *)

MaxIds == 3

\* the isa relations of a hierarchy: transitive and without cycles
Hierarchies ==
    {h \in SUBSET ({Prefixed(a) : a \in ChebiNums}
                    \X {Prefixed(b) : b \in ChebiNums}) :
        /\ \A p \in h : <<p[2], p[1]>> \notin h
        /\ \A p \in h, q \in h : p[2] = q[1] => <<p[1], q[2]>> \in h}

IdLists == UNION {[1..n -> ChebiIds] : n \in 0..MaxIds}

InitSpecific ==
    /\ uniprot_gene_name = [u \in UPs |-> None]
    /\ uniprot_web_gene_name = [u \in UPs |-> None]
    /\ hgnc_ids = [y \in Syms |-> None]
    /\ hgnc_names = [i \in Ids |-> None]
    /\ uniprot_ids = [i \in Ids |-> None]
    /\ mesh_names = NoTable
    /\ go_labels = NoTable
    /\ NoMapper
    /\ NoBatch
    /\ chebi_id_to_name = NoTable
    /\ chebi_to_primary = NoTable
    /\ isa_closure \in Hierarchies
    /\ entry_cache = <<>>
    /\ requests = NoTable
    /\ call = NoCall

CallGetSpecificId ==
    /\ call.op = "none"
    /\ \E chebi_ids \in IdLists :
        call' = [op |-> "get_specific_id", arg |-> chebi_ids,
                 res |-> get_specific_id(chebi_ids)]
    /\ UNCHANGED <<tables, chebi, mapper, batch>>

NextSpecific == CallGetSpecificId

SpecSpecific == InitSpecific /\ [][NextSpecific]_vars

----------------------------------------------------------------------------
(* SpecPrimary: get_primary_id applied to any id, under the tables read from
   any chebi_entries.tsv *)

MaxRows == 2

ChebiName(num) ==
    CASE num = "15422" -> "ATP"
      [] num = "16761" -> "ADP"
      [] OTHER -> "ATP(4-)"

\* the rows an entry can have: its id, its name and up to two secondary ids
Rows ==
    {[chebi_id |-> n, name |-> ChebiName(n), secondaries |-> secs] :
        n \in ChebiNums,
        secs \in UNION {[1..k -> ChebiNums] : k \in 0..2}}

\* the files: every row has an id of its own, and no secondary id is the id
\* of a row or is listed twice in one row
ChebiFiles ==
    {rows \in UNION {[1..n -> Rows] : n \in 0..MaxRows} :
        /\ \A x \in 1..Len(rows), y \in 1..Len(rows) :
              x # y => rows[x].chebi_id # rows[y].chebi_id
        /\ \A x \in 1..Len(rows), y \in 1..Len(rows) :
              \A k \in 1..Len(rows[x].secondaries) :
                 /\ rows[x].secondaries[k] # rows[y].chebi_id
                 /\ \A l \in 1..Len(rows[x].secondaries) :
                       k # l => rows[x].secondaries[k] # rows[x].secondaries[l]}

InitPrimary ==
    /\ uniprot_gene_name = [u \in UPs |-> None]
    /\ uniprot_web_gene_name = [u \in UPs |-> None]
    /\ hgnc_ids = [y \in Syms |-> None]
    /\ hgnc_names = [i \in Ids |-> None]
    /\ uniprot_ids = [i \in Ids |-> None]
    /\ mesh_names = NoTable
    /\ go_labels = NoTable
    /\ NoMapper
    /\ NoBatch
    /\ \E rows \in ChebiFiles :
        /\ chebi_id_to_name =
              read_chebi_names(rows, [chebi_id_to_name |-> NoTable,
                                      chebi_to_primary |-> NoTable]).chebi_id_to_name
        /\ chebi_to_primary =
              read_chebi_names(rows, [chebi_id_to_name |-> NoTable,
                                      chebi_to_primary |-> NoTable]).chebi_to_primary
    /\ isa_closure = {}
    /\ entry_cache = <<>>
    /\ requests = NoTable
    /\ call = NoCall

CallGetPrimaryId ==
    /\ call.op = "none"
    /\ \E chebi_id \in ChebiIds \cup {""} :
        call' = [op |-> "get_primary_id", arg |-> chebi_id,
                 res |-> get_primary_id(chebi_id)]
    /\ UNCHANGED <<tables, chebi, mapper, batch>>

NextPrimary == CallGetPrimaryId

SpecPrimary == InitPrimary /\ [][NextPrimary]_vars

----------------------------------------------------------------------------
(* SpecWeb: any sequence of calls of get_chebi_entry_from_web and
   get_chebi_name_from_id in one process, the web service answering each
   request in any way *)

MaxRequests == 2

WebIds == {"15422", "CHEBI:15422", "30616"}

InitWeb ==
    /\ uniprot_gene_name = [u \in UPs |-> None]
    /\ uniprot_web_gene_name = [u \in UPs |-> None]
    /\ hgnc_ids = [y \in Syms |-> None]
    /\ hgnc_names = [i \in Ids |-> None]
    /\ uniprot_ids = [i \in Ids |-> None]
    /\ mesh_names = NoTable
    /\ go_labels = NoTable
    /\ NoMapper
    /\ NoBatch
    /\ chebi_id_to_name \in {NoTable, [k \in {"30616"} |-> "ATP(4-)"]}
    /\ chebi_to_primary = NoTable
    /\ isa_closure = {}
    /\ entry_cache = <<>>
    /\ requests = [chebi_id \in WebIds |-> 0]
    /\ call = NoCall

\* the call returns or raises: o is its outcome, chebi_id the id it asks the
\* service about if it does
WebCalled(op, arg, offline, response, o, chebi_id) ==
    /\ call' = [op |-> op, arg |-> arg, offline |-> offline,
                response |-> IF o.requested THEN response ELSE "no_request",
                res |-> o.res, raised |-> o.raised]
    /\ entry_cache' = o.cache
    /\ requests' = IF o.requested
                   THEN [requests EXCEPT ![chebi_id] = @ + 1]
                   ELSE requests
    /\ UNCHANGED <<tables, chebi_id_to_name, chebi_to_primary, isa_closure,
                   mapper, batch>>

CallGetChebiEntryFromWeb ==
    \E chebi_id \in WebIds, response \in Responses :
        /\ requests[chebi_id] < MaxRequests
        /\ WebCalled("get_chebi_entry_from_web", chebi_id, FALSE, response,
                     get_chebi_entry_from_web(chebi_id, response,
                                              ChebiName(strip_prefix(chebi_id))),
                     chebi_id)

CallGetChebiNameFromId ==
    \E chebi_id \in WebIds, offline \in BOOLEAN, response \in Responses :
        /\ requests[strip_prefix(chebi_id)] < MaxRequests
        /\ WebCalled("get_chebi_name_from_id", chebi_id, offline, response,
                     get_chebi_name_from_id(chebi_id, offline, response,
                                            ChebiName(strip_prefix(chebi_id))),
                     strip_prefix(chebi_id))

NextWeb == CallGetChebiEntryFromWeb \/ CallGetChebiNameFromId

SpecWeb == InitWeb /\ [][NextWeb]_vars

----------------------------------------------------------------------------
(* SpecStmt: one call of map_agents_for_stmt, an iteration of its loops at a
   time.  call holds the activation: the Statement passed in (arg) and what
   the caller's object is now (input), mapped_stmt, the positions i of the
   first loop and b (Agent) and j (bound condition) of the second, counted
   from 1, the phase (top: the
   loop of lines 172-201, bound: the loop of lines 206-214, returned, raised),
   what the last iteration did (last), and the outcome (res, raised).  The
   mapper may be called again with the same arguments: round counts the
   calls and first holds the outcome of the first one. *)

NoStep == [kind |-> "none"]

\* after line 170
Activation(stmt, rename) ==
    [op |-> "map_agents_for_stmt", arg |-> stmt, do_rename |-> rename,
     input |-> caller_stmt(stmt, stmt), mapped_stmt |-> stmt,
     phase |-> "top", i |-> 1, b |-> 1, j |-> 1, last |-> NoStep,
     res |-> NoneStmt, raised |-> "none", round |-> 1,
     first |-> [res |-> NoneStmt, raised |-> "none"]]

\* what an iteration of the first loop did: the position and text of the
\* Agent, the Agent and maps_to_none map_agent gave, whether Deft ran and what
\* it raised
TopStep(c, agent_txt, r, ran, deft) ==
    [kind |-> "top", pos |-> c.i, text |-> agent_txt, mapped |-> r.agent,
     maps_to_none |-> r.maps_to_none, deft_ran |-> ran,
     deft_raised |-> deft.raised]

\* what an iteration of the second loop did
BoundStep(c, r) ==
    [kind |-> "bound", pos |-> c.b, bc |-> c.j, maps_to_none |-> r.maps_to_none]

\* mapped_stmt with the annotations Deft left and new_agent at position i
replace_agent(mapped_stmt, i, deft) ==
    [WithAnnotations(mapped_stmt, deft.annots) EXCEPT
        !.agents[i] = keep_bound_conditions(deft.new_agent, mapped_stmt.agents[i])]

\* lines 191-201
top_level_replaced(c, agent_txt, r, ran, deft) ==
    IF r.maps_to_none
    THEN [c EXCEPT !.mapped_stmt = WithAnnotations(c.mapped_stmt, deft.annots),
                   !.input = caller_stmt(c.input,
                                 WithAnnotations(c.mapped_stmt, deft.annots)),
                   !.phase = "returned", !.res = NoneStmt,
                   !.last = TopStep(c, agent_txt, r, ran, deft)]
    ELSE [c EXCEPT !.mapped_stmt = replace_agent(c.mapped_stmt, c.i, deft),
                   !.input = caller_stmt(c.input,
                                 replace_agent(c.mapped_stmt, c.i, deft)),
                   !.i = c.i + 1,
                   !.last = TopStep(c, agent_txt, r, ran, deft)]

\* lines 179-189
top_level_mapped(c, agent_txt, r) ==
    IF r.raised # "none"
    THEN [c EXCEPT !.phase = "raised", !.raised = r.raised, !.last = NoStep]
    ELSE IF use_deft /\ HasDeftModel(agent_txt)
    THEN top_level_replaced(c, agent_txt, r, TRUE,
            run_deft_disambiguation(c.mapped_stmt, c.i - 1, r.agent, agent_txt))
    ELSE top_level_replaced(c, agent_txt, r, FALSE,
            DeftResult(Annotations(c.mapped_stmt), r.agent, "none"))

\* lines 173-179: one iteration of the loop over agent_list
top_level_step(c) ==
    IF \/ c.mapped_stmt.agents[c.i] = NoneAgent
       \/ MentionText(c.mapped_stmt.agents[c.i]) = None
    THEN [c EXCEPT !.i = c.i + 1, !.last = NoStep]
    ELSE top_level_mapped(c, MentionText(c.mapped_stmt.agents[c.i]),
                          map_agent(c.mapped_stmt.agents[c.i], c.do_rename))

\* A variant of the second loop that goes on after a bound condition maps to None
bound_condition_step_going_on(c, r) ==
    IF r.raised # "none"
    THEN [c EXCEPT !.phase = "raised", !.raised = r.raised, !.last = NoStep]
    ELSE [c EXCEPT !.mapped_stmt.agents[c.b].bound_conditions[c.j] = r.agent,
                   !.input = caller_stmt(c.input,
                        [c.mapped_stmt EXCEPT
                            !.agents[c.b].bound_conditions[c.j] = r.agent]),
                   !.j = c.j + 1, !.last = BoundStep(c, r)]

\* lines 209-214: one iteration of the loop over the bound conditions
bound_condition_step(c, r) ==
    IF r.raised # "none"
    THEN [c EXCEPT !.phase = "raised", !.raised = r.raised, !.last = NoStep]
    ELSE IF r.maps_to_none
    THEN [c EXCEPT !.mapped_stmt.agents[c.b].bound_conditions[c.j] = r.agent,
                   !.input = caller_stmt(c.input,
                        [c.mapped_stmt EXCEPT
                            !.agents[c.b].bound_conditions[c.j] = r.agent]),
                   !.phase = "returned", !.res = NoneStmt,
                   !.last = BoundStep(c, r)]
    ELSE [c EXCEPT !.mapped_stmt.agents[c.b].bound_conditions[c.j] = r.agent,
                   !.input = caller_stmt(c.input,
                        [c.mapped_stmt EXCEPT
                            !.agents[c.b].bound_conditions[c.j] = r.agent]),
                   !.j = c.j + 1, !.last = BoundStep(c, r)]

StmtMapperStates ==
    /\ gm \in {g \in [Texts -> UNION {GmValues(t) : t \in Texts}] :
                 /\ g["ERK"] \in {NoKey, Refs({<<"TEXT", "ERK">>, <<"FPLX", "ERK">>}),
                                  Refs({<<"TEXT", "ERK">>, <<"HGNC", "BRAF">>}),
                                  Refs({<<"TEXT", "ERK">>, <<"UP", "P15056">>,
                                        <<"HGNC", "KRAS">>})}
                 /\ g["XYZ"] \in {NoKey, NoneDict}}
    /\ agent_map \in {m \in [Texts -> AgentMapValues] :
                 \/ m = [t \in Texts |-> NoKey]
                 \/ m = [t \in Texts |-> IF t = "ERK" THEN [agent |-> AgentJsonBound]
                                         ELSE NoKey]
                 \/ m = [t \in Texts |-> IF t = "XYZ" THEN [agent |-> AgentJson]
                                         ELSE NoKey]}
    /\ use_deft \in BOOLEAN
    /\ deft_disambiguators \in
         {d \in [Texts -> DeftModels \cup {NoKey}] :
             d["XYZ"] \in {NoKey, [raises |-> FALSE, ns_and_id |-> <<"FPLX", "ERK">>,
                                   name |-> "ERK"]}}

InitStmt ==
    /\ InitWorld
    /\ StmtMapperStates
    /\ NoBatch
    /\ NoChebi
    /\ call = NoCall

\* map_agents_for_stmt is called: lines 167-170
CallMapAgentsForStmt ==
    /\ call.op = "none"
    /\ \E stmt \in StmtInputs, rename \in BOOLEAN : call' = Activation(stmt, rename)
    /\ UNCHANGED <<tables, chebi, mapper, batch>>

\* an iteration of the loop of lines 172-201
MapTopLevelAgent ==
    /\ call.op = "map_agents_for_stmt"
    /\ call.phase = "top"
    /\ call.i <= Len(call.mapped_stmt.agents)
    /\ call' = top_level_step(call)
    /\ gm' = gm_mapped(MentionText(call.mapped_stmt.agents[call.i]))
    /\ UNCHANGED <<tables, chebi, agent_map, use_deft, deft_disambiguators, batch>>

\* line 203: the first loop is over, the second begins
SetAgentList ==
    /\ call.op = "map_agents_for_stmt"
    /\ call.phase = "top"
    /\ call.i > Len(call.mapped_stmt.agents)
    /\ call' = [call EXCEPT !.phase = "bound", !.b = 1, !.j = 1, !.last = NoStep]
    /\ UNCHANGED <<tables, chebi, mapper, batch>>

\* lines 206-208: the next Agent of agent_list, once the bound conditions of
\* this one are done (a None Agent has none)
NextBoundAgent ==
    /\ call.op = "map_agents_for_stmt"
    /\ call.phase = "bound"
    /\ call.b <= Len(call.mapped_stmt.agents)
    /\ IF call.mapped_stmt.agents[call.b] = NoneAgent THEN TRUE
       ELSE call.j > Len(call.mapped_stmt.agents[call.b].bound_conditions)
    /\ call' = [call EXCEPT !.b = call.b + 1, !.j = 1, !.last = NoStep]
    /\ UNCHANGED <<tables, chebi, mapper, batch>>

\* an iteration of the loop of lines 208-214
MapBoundCondition ==
    /\ call.op = "map_agents_for_stmt"
    /\ call.phase = "bound"
    /\ call.b <= Len(call.mapped_stmt.agents)
    /\ call.mapped_stmt.agents[call.b] # NoneAgent
    /\ call.j <= Len(call.mapped_stmt.agents[call.b].bound_conditions)
    /\ call' = bound_condition_step(call,
                    map_agent(call.mapped_stmt.agents[call.b].bound_conditions[call.j],
                              call.do_rename))
    /\ gm' = gm_mapped(MentionText(
                        call.mapped_stmt.agents[call.b].bound_conditions[call.j]))
    /\ UNCHANGED <<tables, chebi, agent_map, use_deft, deft_disambiguators, batch>>

\* line 216
ReturnMappedStmt ==
    /\ call.op = "map_agents_for_stmt"
    /\ call.phase = "bound"
    /\ call.b > Len(call.mapped_stmt.agents)
    /\ call' = [call EXCEPT !.phase = "returned", !.res = call.mapped_stmt,
                            !.last = NoStep]
    /\ UNCHANGED <<tables, chebi, mapper, batch>>

\* the call is over and map_agents_for_stmt is called once more, with the
\* same Statement and do_rename
CallMapAgentsForStmtAgain ==
    /\ call.op = "map_agents_for_stmt"
    /\ call.phase \in {"returned", "raised"}
    /\ call.round = 1
    /\ call' = [Activation(call.arg, call.do_rename) EXCEPT
                    !.round = 2,
                    !.first = [res |-> call.res, raised |-> call.raised]]
    /\ UNCHANGED <<tables, chebi, mapper, batch>>

NextStmt ==
    \/ CallMapAgentsForStmt
    \/ CallMapAgentsForStmtAgain
    \/ MapTopLevelAgent
    \/ SetAgentList
    \/ NextBoundAgent
    \/ MapBoundCondition
    \/ ReturnMappedStmt

SpecStmt == InitStmt /\ [][NextStmt]_vars

\* the loops, iteration by iteration, come to what map_agents_for_stmt gives
StepsAgree ==
    (call.op = "map_agents_for_stmt" /\ call.phase \in {"returned", "raised"})
    => /\ call.res = map_agents_for_stmt(call.arg, call.do_rename).stmt
       /\ call.raised = map_agents_for_stmt(call.arg, call.do_rename).raised
       /\ call.input = map_agents_for_stmt(call.arg, call.do_rename).input

----------------------------------------------------------------------------
(* Properties of standardize_db_refs, checked under SpecStd *)

StdCalled == call.op = "standardize_db_refs"

\* the result has the entries of the argument outside the given name spaces
SameExcept(d, e, keys) == \A k \in NS \ keys : d[k] = e[k]

\* C1: with an HGNC symbol and no UP entry, a symbol that resolves to no HGNC
\* ID makes standardize_db_refs raise ValueError; it never returns normally.
C1_UnknownSymbolRaises ==
    (/\ StdCalled
     /\ Truthy(call.arg["HGNC"])
     /\ call.arg["UP"] = Absent
     /\ ~Truthy(get_hgnc_id(call.arg["HGNC"])))
    => call.res.raised = "ValueError"

C1_Witness ==
    /\ StdCalled
    /\ call.arg["HGNC"] = "BRAF"
    /\ call.arg["UP"] = Absent
    /\ get_hgnc_id("BRAF") = None
    /\ call.res.raised = "ValueError"

\* C2: with both UP and HGNC present, a UniProt accession without a gene name,
\* or with a gene name that is not exactly the given symbol, makes
\* standardize_db_refs raise ValueError and leaves the record as it was.
C2_MismatchRaisesUnmodified ==
    (/\ StdCalled
     /\ Truthy(call.arg["UP"])
     /\ Truthy(call.arg["HGNC"])
     /\ \/ ~Truthy(get_gene_name(call.arg["UP"], TRUE))
        \/ get_gene_name(call.arg["UP"], TRUE) # call.arg["HGNC"])
    => /\ call.res.raised = "ValueError"
       /\ call.res.db_refs = call.arg

C2_Witness ==
    /\ StdCalled
    /\ call.arg["UP"] = "P15056"
    /\ call.arg["HGNC"] = "BRAF"
    /\ get_gene_name("P15056", TRUE) = "KRAS"
    /\ get_hgnc_id("BRAF") = "1097"
    /\ call.res.raised = "ValueError"
    /\ call.res.db_refs = call.arg

\* C3: with UP = u and no HGNC entry standardize_db_refs never raises; it adds
\* HGNC = h when u has the gene name g and g resolves to the HGNC ID h, and
\* returns the record unchanged otherwise.
C3_UpOnlyEnriches ==
    (/\ StdCalled
     /\ Truthy(call.arg["UP"])
     /\ call.arg["HGNC"] = Absent)
    => LET g == get_gene_name(call.arg["UP"], FALSE)
           h == get_hgnc_id(g)
       IN  /\ call.res.raised = "none"
           /\ call.res.db_refs =
                IF Truthy(g) /\ Truthy(h)
                THEN [call.arg EXCEPT !["HGNC"] = h]
                ELSE call.arg

C3_Witness ==
    /\ StdCalled
    /\ call.arg["UP"] = "P15056"
    /\ call.arg["HGNC"] = Absent
    /\ get_gene_name("P15056", FALSE) = "BRAF"
    /\ get_hgnc_id("BRAF") = "1097"
    /\ call.res.db_refs["HGNC"] = "1097"
    /\ call.res.db_refs["UP"] = "P15056"

\* C4: with an HGNC symbol that resolves to the HGNC ID h and no UP entry, the
\* HGNC entry becomes h and UP becomes the UniProt accession of h exactly when
\* one is found; UP stays absent otherwise.
C4_HgncOnlyResolves ==
    (/\ StdCalled
     /\ Truthy(call.arg["HGNC"])
     /\ call.arg["UP"] = Absent
     /\ Truthy(get_hgnc_id(call.arg["HGNC"])))
    => LET h == get_hgnc_id(call.arg["HGNC"])
           u == get_uniprot_id(h)
       IN  /\ call.res.raised = "none"
           /\ call.res.db_refs["HGNC"] = h
           /\ call.res.db_refs["UP"] = IF Truthy(u) THEN u ELSE Absent

C4_Witness ==
    /\ StdCalled
    /\ call.arg["HGNC"] = "BRAF"
    /\ call.arg["UP"] = Absent
    /\ get_hgnc_id("BRAF") = "1097"
    /\ get_uniprot_id("1097") = "P15056"
    /\ call.res.db_refs["HGNC"] = "1097"
    /\ call.res.db_refs["UP"] = "P15056"

\* UP entry u and HGNC ID h agree: h is the ID of u's gene name, or u is the
\* accession recorded for h
Consistent(u, h) ==
    \/ get_hgnc_id(get_gene_name(u, TRUE)) = h
    \/ get_uniprot_id(h) = u

\* C5: whenever standardize_db_refs returns normally with an HGNC entry, that
\* entry is an HGNC numeric ID (not the input symbol) and agrees with the UP
\* entry if there is one, in every branch, the one with both UP and HGNC given
\* included.
C5_ReturnedHgncIsId ==
    (/\ StdCalled
     /\ call.res.raised = "none"
     /\ Truthy(call.res.db_refs["HGNC"]))
    => /\ call.res.db_refs["HGNC"] \in Ids
       /\ Truthy(call.res.db_refs["UP"])
            => Consistent(call.res.db_refs["UP"], call.res.db_refs["HGNC"])

\* C6: standardize_db_refs adds, removes or changes no entry other than UP and
\* HGNC, and with neither UP nor HGNC present it returns the record unchanged.
C6_OtherEntriesUntouched ==
    StdCalled
    => /\ SameExcept(call.res.db_refs, call.arg, {"UP", "HGNC"})
       /\ (call.arg["UP"] = Absent /\ call.arg["HGNC"] = Absent)
            => (call.res.raised = "none" /\ call.res.db_refs = call.arg)

C6_Witness ==
    /\ StdCalled
    /\ call.arg["FPLX"] = "ERK"
    /\ call.arg["TEXT"] = "ERK"
    /\ call.arg["HGNC"] = "BRAF"
    /\ call.arg["UP"] = Absent
    /\ call.res.raised = "none"
    /\ call.res.db_refs["HGNC"] = "1097"
    /\ call.res.db_refs["FPLX"] = "ERK"
    /\ call.res.db_refs["TEXT"] = "ERK"

----------------------------------------------------------------------------
(* Properties of map_agent, checked under SpecAgent *)

MapCalled == call.op = "map_agent"

ArgText == Get(call.arg.db_refs, "TEXT")

HasAgentMapEntry(t) == t \in DOMAIN agent_map /\ agent_map[t] # NoKey

MapsToNoneInGm(t) == t \in DOMAIN gm /\ gm[t] = NoneDict

DropSignal(res) ==
    /\ res.raised = "none"
    /\ res.agent = NoneAgent
    /\ res.maps_to_none

SameMentionUnchanged(res, agent) ==
    /\ res.raised = "none"
    /\ res.ref = "input"
    /\ res.agent = agent
    /\ res.input = agent
    /\ ~res.maps_to_none

\* C7 as stated: a mention whose text the grounding map maps to None yields the
\* drop signal (None, True), whatever the agent map and the Deft registry hold.
C7_NoneAlwaysDrops ==
    (MapCalled /\ MapsToNoneInGm(ArgText)) => DropSignal(call.res)

\* C7 amended: a mention whose text the grounding map maps to None and that has
\* no agent map entry yields the drop signal (None, True), whatever the Deft
\* registry holds.
C7_NoneDropsWithoutAgentMapEntry ==
    (MapCalled /\ MapsToNoneInGm(ArgText) /\ ~HasAgentMapEntry(ArgText))
    => DropSignal(call.res)

C7_Witness ==
    /\ MapCalled
    /\ ArgText = "XYZ"
    /\ gm["XYZ"] = NoneDict
    /\ agent_map["XYZ"] = NoKey
    /\ agent_map["ERK"] # NoKey
    /\ use_deft
    /\ deft_disambiguators["XYZ"] # NoKey
    /\ DropSignal(call.res)

\* C8 as stated: a mention whose text is no key of the grounding map comes
\* back as the very same mention, record and name unchanged, with no drop
\* signal.
C8_MissingAlwaysUnchanged ==
    (MapCalled /\ ~GmHas(ArgText)) => SameMentionUnchanged(call.res, call.arg)

\* C8 amended: a mention whose text is no key of the grounding map and has no
\* agent map entry comes back as the very same mention, record and name
\* unchanged, with no drop signal; neither reconciliation nor renaming runs.
C8_MissingUnchangedWithoutAgentMapEntry ==
    (MapCalled /\ ~GmHas(ArgText) /\ ~HasAgentMapEntry(ArgText))
    => SameMentionUnchanged(call.res, call.arg)

C8_Witness ==
    /\ MapCalled
    /\ ArgText = "ERK"
    /\ gm["ERK"] = NoKey
    /\ agent_map["ERK"] = NoKey
    /\ call.do_rename
    /\ call.arg.db_refs["UP"] = "P01116"
    /\ call.arg.bound_conditions # <<>>
    /\ SameMentionUnchanged(call.res, call.arg)

\* C9: a text with an agent map entry yields the Agent built from that entry
\* and no drop signal, whatever the grounding map holds for the text; the
\* entry's record and name are taken as they are (no reconciliation, no
\* renaming) and the mention passed in is left alone.
C9_AgentMapEntryWins ==
    (MapCalled /\ HasAgentMapEntry(ArgText))
    => LET json == agent_map[ArgText].agent
       IN  /\ call.res.raised = "none"
           /\ ~call.res.maps_to_none
           /\ call.res.ref = "new"
           /\ call.res.agent.kind = "Agent"
           /\ call.res.agent.name = json.name
           /\ call.res.agent.db_refs = json.db_refs
           /\ Len(call.res.agent.bound_conditions) = Len(json.bound_conditions)
           /\ call.res.input = call.arg

C9_Witness ==
    /\ MapCalled
    /\ ArgText = "XYZ"
    /\ gm["XYZ"] = NoneDict
    /\ agent_map["XYZ"] = [agent |-> AgentJsonBound]
    /\ call.do_rename
    /\ call.res.agent.name = "BRAF"
    /\ call.res.agent.db_refs["HGNC"] = "BRAF"
    /\ ~call.res.maps_to_none

----------------------------------------------------------------------------
(* Properties of map_agents, checked under Spec *)

\* a mention resolves to drop: the grounding map maps its text to None and
\* the agent map has no entry for it
ResolvesToDrop(agent) ==
    /\ MapsToNoneInGm(MentionText(agent))
    /\ ~HasAgentMapEntry(MentionText(agent))

\* the bound sub-mentions of a top-level mention once it is mapped: those of
\* the Agent of its agent map entry if that has any, its own otherwise
BoundMentions(agent) ==
    IF agent = NoneAgent THEN <<>>
    ELSE IF /\ HasAgentMapEntry(MentionText(agent))
            /\ agent_map[MentionText(agent)].agent.bound_conditions # <<>>
    THEN Agent_from_json(agent_map[MentionText(agent)].agent).bound_conditions
    ELSE agent.bound_conditions

HasDroppedMention(stmt) ==
    \E i \in 1..Len(stmt.agents) :
        \/ ResolvesToDrop(stmt.agents[i])
        \/ \E j \in 1..Len(BoundMentions(stmt.agents[i])) :
              ResolvesToDrop(BoundMentions(stmt.agents[i])[j])

RetainedInputs == {i \in 1..Len(stmts) : ~HasDroppedMention(stmts[i])}

\* the position in stmts of the k-th retained Statement
RetainedAt(k) ==
    CHOOSE i \in RetainedInputs :
        Cardinality({j \in RetainedInputs : j <= i}) = k

\* C10: map_agents returns the retained Statements in input order, removes
\* exactly the Statements with a top-level or nested bound mention that
\* resolves to drop, and num_skipped is the number of Statements removed.
C10_BatchKeepsOrderAndCounts ==
    pc = "returned"
    => /\ Len(mapped_stmts) = Cardinality(RetainedInputs)
       /\ num_skipped = Len(stmts) - Cardinality(RetainedInputs)
       /\ Len(mapped_stmts) + num_skipped = Len(stmts)
       /\ \A k \in 1..Len(mapped_stmts) :
            mapped_stmts[k] = map_agents_for_stmt(stmts[RetainedAt(k)], arg_do_rename).stmt

C10_Witness ==
    /\ pc = "returned"
    /\ Len(stmts) = 2
    /\ HasDroppedMention(stmts[1])
    /\ ~ResolvesToDrop(stmts[1].agents[1])
    /\ ~ResolvesToDrop(stmts[1].agents[2])
    /\ ~HasDroppedMention(stmts[2])
    /\ num_skipped = 1
    /\ Len(mapped_stmts) = 1
    /\ mapped_stmts[1].agents[1].name # stmts[2].agents[1].name

----------------------------------------------------------------------------
(* The Statements passed to map_agents, checked under Spec *)

----------------------------------------------------------------------------
(* Properties of map_agents_for_stmt, checked under SpecStmt *)

StmtCalled == call.op = "map_agents_for_stmt"

\* the last iteration of the first loop ran Deft for an Agent that is kept
DeftRan ==
    /\ StmtCalled
    /\ call.last.kind = "top"
    /\ call.last.deft_ran
    /\ ~call.last.maps_to_none

\* the Agent the last iteration of the first loop put into agent_list
LastAgent == call.mapped_stmt.agents[call.last.pos]

\* C12: a failure inside run_deft_disambiguation is a no-op: the Agent has the
\* db_refs and the name map_agent gave it, and the loop goes on.
C12_FailedDeftIsNoOp ==
    (DeftRan /\ call.last.deft_raised # "none")
    => /\ call.phase = "top"
       /\ call.i = call.last.pos + 1
       /\ LastAgent.db_refs = call.last.mapped.db_refs
       /\ LastAgent.name = call.last.mapped.name

\* the model Deft has for the text of the last Agent returned a grounding
DeftGrounded ==
    /\ DeftRan
    /\ ~deft_disambiguators[call.last.text].raises
    /\ deft_disambiguators[call.last.text].ns_and_id # <<"ungrounded">>

\* C13: when the Deft model returns a grounding and a name, the Agent's
\* db_refs hold TEXT, the text of the Agent, and the entry of the grounding's
\* name space, and its name is the name returned; so for HGNC as well.
C13_DeftGroundingKeepsText ==
    DeftGrounded
    => /\ LastAgent.db_refs["TEXT"] = call.last.text
       /\ Truthy(LastAgent.db_refs[deft_disambiguators[call.last.text].ns_and_id[1]])
       /\ LastAgent.name = deft_disambiguators[call.last.text].name

\* C20: a bound condition is mapped only once the first loop has taken every
\* Agent of the agent list, it is a bound condition of the Agent that loop
\* left at its position, and when it maps to None the call returns None.
C20_BoundAfterTopLevel ==
    [][(call'.op = "map_agents_for_stmt" /\ call'.last.kind = "bound")
       => /\ call.phase = "bound"
          /\ call.i > Len(call.arg.agents)
          /\ call.mapped_stmt.agents[call'.last.pos].bound_conditions[call'.last.bc]
               = BoundMentions(call.arg.agents[call'.last.pos])[call'.last.bc]
          /\ call'.last.maps_to_none
               => (call'.phase = "returned" /\ call'.res = NoneStmt)]_vars

\* a bound condition the agent map brought in has mapped to None and the call
\* has returned None
C20_Witness ==
    /\ StmtCalled
    /\ call.last.kind = "bound"
    /\ call.last.maps_to_none
    /\ call.phase = "returned"
    /\ call.res = NoneStmt
    /\ call.arg.agents[call.last.pos].bound_conditions = <<>>
    /\ Len(call.mapped_stmt.agents[call.last.pos].bound_conditions) = 1

----------------------------------------------------------------------------
(* Exceptions of map_agent in map_agents, checked under Spec *)

\* the Agents with a TEXT in the agent list, in the order of the first loop
TopInOrder(stmt) == SelectSeq(stmt.agents, LAMBDA a : MentionText(a) # None)

\* the bound conditions in the order of the second loop, from Agent i on
RECURSIVE BoundInOrder(_, _)
BoundInOrder(stmt, i) ==
    IF i > Len(stmt.agents) THEN <<>>
    ELSE BoundMentions(stmt.agents[i]) \o BoundInOrder(stmt, i + 1)

MentionsInOrder(stmt) == TopInOrder(stmt) \o BoundInOrder(stmt, 1)

\* standardize_db_refs raises for the record the grounding map has for the
\* mention
Faulty(agent) == map_agent(agent, arg_do_rename).raised = "ValueError"

\* the first mention of the Statement that either raises or maps to None raises
FaultFirst(stmt) ==
    \E k \in 1..Len(MentionsInOrder(stmt)) :
        /\ Faulty(MentionsInOrder(stmt)[k])
        /\ \A l \in 1..(k - 1) :
              /\ ~Faulty(MentionsInOrder(stmt)[l])
              /\ ~ResolvesToDrop(MentionsInOrder(stmt)[l])

\* C18: a ValueError of standardize_db_refs for a mention, top-level or bound,
\* comes out of map_agents: the Statement is neither kept nor counted as
\* skipped, and the loop is left.
C18_FaultPropagates ==
    [][(pc = "loop" /\ idx < Len(stmts) /\ FaultFirst(stmts[idx + 1]))
       => /\ pc' = "raised"
          /\ call'.op = "map_agents"
          /\ call'.raised = "ValueError"
          /\ mapped_stmts' = mapped_stmts
          /\ num_skipped' = num_skipped]_vars

\* map_agents has raised at the second Statement, for a bound condition
C18_Witness ==
    /\ pc = "raised"
    /\ call.op = "map_agents"
    /\ call.raised = "ValueError"
    /\ Len(mapped_stmts) = 1
    /\ idx = 1
    /\ FaultFirst(stmts[2])
    /\ \A k \in 1..Len(TopInOrder(stmts[2])) : ~Faulty(TopInOrder(stmts[2])[k])

----------------------------------------------------------------------------
(* Properties of standardize_name, checked under SpecName *)

NameCalled == call.op = "standardize_name"

\* the name the client of a name space has for an id, None if it has none
LookedUpName(db_ns, db_id) ==
    CASE db_ns = "HGNC" -> get_hgnc_name(db_id)
      [] db_ns = "UP" -> get_gene_name(db_id, FALSE)
      [] db_ns = "CHEBI" -> Lookup(chebi_id_to_name, strip_prefix(db_id))
      [] db_ns = "MESH" -> get_mesh_name(db_id)
      [] db_ns = "GO" -> get_go_label(db_id)
      [] OTHER -> None

\* the name standardize_name is to give an Agent: that of the first populated
\* name space in the order FPLX, HGNC, UP, CHEBI, MESH, GO and of no other
WinningName(agent) ==
    LET db_ns == get_grounding(agent.db_refs)[1]
        db_id == get_grounding(agent.db_refs)[2]
    IN  IF ~Truthy(db_ns) THEN agent.name
        ELSE IF db_ns = "FPLX" THEN db_id
        ELSE IF Truthy(LookedUpName(db_ns, db_id)) THEN LookedUpName(db_ns, db_id)
        ELSE agent.name

\* C17: standardize_name returns, having set the name from the first populated
\* name space only (the FamPlex id itself, the looked-up name for HGNC, UP,
\* CHEBI, MESH and GO), and leaves the name when that lookup gives nothing.
C17_NameFromWinningNamespace ==
    NameCalled
    => /\ call.res.raised = "none"
       /\ call.res.agent.name = WinningName(call.arg)
       /\ call.res.agent.db_refs = call.arg.db_refs

----------------------------------------------------------------------------
(* Properties of get_specific_id, checked under SpecSpecific *)

SpecificCalled == call.op = "get_specific_id" /\ call.arg # <<>>

\* a isa b, whether or not a and b have the prefix
MoreSpecific(a, b) ==
    isa(IF startswith_CHEBI(a) THEN a ELSE Prefixed(a),
        IF startswith_CHEBI(b) THEN b ELSE Prefixed(b))

\* C14: get_specific_id returns an id of the list such that no id of the list
\* isa the id returned, whatever the list and the order of its ids.
C14_ReturnsMostSpecific ==
    SpecificCalled
    => /\ \E k \in 1..Len(call.arg) : call.res = call.arg[k]
       /\ \A k \in 1..Len(call.arg) : ~MoreSpecific(call.arg[k], call.res)

----------------------------------------------------------------------------
(* Properties of get_primary_id, checked under SpecPrimary *)

\* get_primary_id is called with an id that, its prefix apart, is a
\* secondary id of the table
SynonymCalled ==
    /\ call.op = "get_primary_id"
    /\ strip_prefix(call.arg) \in DOMAIN chebi_to_primary

\* C15: for an id x of the synonym table, with or without the prefix CHEBI:,
\* get_primary_id(x) is get_primary_id of the primary id of x.
C15_PrimaryIdIdempotent ==
    SynonymCalled
    => call.res = get_primary_id(chebi_to_primary[strip_prefix(call.arg)])

----------------------------------------------------------------------------
(* Properties of the remote ChEBI lookup, checked under SpecWeb *)

\* the last call asked the web service and the request failed: no connection,
\* a status other than 200, an empty body or a body that is no XML
LookupFailed ==
    /\ call.op \in {"get_chebi_entry_from_web", "get_chebi_name_from_id"}
    /\ call.response \in {"ConnectionError", "status_500", "empty_body",
                          "malformed_body"}

\* C16: a failed request makes get_chebi_entry_from_web and
\* get_chebi_name_from_id return None, and neither raises.
C16_RemoteLookupNeverRaises ==
    LookupFailed
    => /\ call.raised = "none"
       /\ IF call.op = "get_chebi_entry_from_web"
          THEN call.res = NoneEntry
          ELSE call.res = None

\* C19: no id is requested from the web service more than once, whatever the
\* calls and whatever the earlier lookups of the id returned or raised.
C19_OneRequestPerId ==
    \A chebi_id \in DOMAIN requests : requests[chebi_id] <= 1

----------------------------------------------------------------------------
(* Bound conditions of a replaced Agent, checked under SpecStmt *)

\* the Agent at position p of the Statement passed in has a text and bound
\* conditions, and map_agent gives for it an Agent without bound conditions
ReplacedWithoutBound(p) ==
    IF call.arg.agents[p] = NoneAgent THEN FALSE
    ELSE IF MentionText(call.arg.agents[p]) = None THEN FALSE
    ELSE IF Len(call.arg.agents[p].bound_conditions) = 0 THEN FALSE
    ELSE IF map_agent(call.arg.agents[p], call.do_rename).raised # "none" THEN FALSE
    ELSE IF map_agent(call.arg.agents[p], call.do_rename).maps_to_none THEN FALSE
    ELSE Len(map_agent(call.arg.agents[p], call.do_rename).agent.bound_conditions) = 0

\* the first loop has just replaced the Agent at position p
JustReplaced(p) ==
    /\ call.phase = "top"
    /\ call.last.kind = "top"
    /\ call.last.pos = p

\* the bound conditions of the Agent at position p of the mapped Statement
\* are those of the Statement passed in, each one mapped by the second loop
BoundConditionsMapped(p) ==
    /\ Len(call.res.agents[p].bound_conditions)
          = Len(call.arg.agents[p].bound_conditions)
    /\ \A j \in 1..Len(call.arg.agents[p].bound_conditions) :
          call.res.agents[p].bound_conditions[j]
             = map_agent(call.arg.agents[p].bound_conditions[j],
                         call.do_rename).agent

\* C21: when an Agent with bound conditions is replaced by an Agent that has
\* none, the new Agent takes over the bound conditions of the old one: right
\* after the replacement they are the old ones as they were, and in the
\* Statement returned they are the old ones, as many and in order, each one
\* mapped in its turn.
C21_BoundConditionsKept ==
    call.op = "map_agents_for_stmt"
    => \A p \in 1..Len(call.arg.agents) :
          ReplacedWithoutBound(p)
          => /\ JustReplaced(p)
                => call.mapped_stmt.agents[p].bound_conditions
                      = call.arg.agents[p].bound_conditions
             /\ (call.phase = "returned" /\ call.res # NoneStmt)
                => BoundConditionsMapped(p)

\* a Statement is returned whose first Agent, one with a bound condition, was
\* replaced by the Agent of an agent map entry that has none
C21_Witness ==
    /\ call.op = "map_agents_for_stmt"
    /\ call.phase = "returned"
    /\ call.res # NoneStmt
    /\ ReplacedWithoutBound(1)
    /\ map_agent(call.arg.agents[1], call.do_rename).ref = "new"
    /\ Len(call.res.agents[1].bound_conditions) = 1

----------------------------------------------------------------------------
(* The grounding map and the agent map, checked under SpecStmt *)

\* the second call with the same Statement is over
SecondCallOver ==
    IF call.op # "map_agents_for_stmt" THEN FALSE
    ELSE call.round = 2 /\ call.phase \in {"returned", "raised"}

====
